---- MODULE Spec2Model ----
(***************************************************************************)
(* Model of the four end-to-end browser scenarios under                    *)
(* src/testsprite_tests (TC004, TC005, TC007, TC012).  Each scenario is    *)
(* one coroutine run_test(): acquire engine, browser, context and page     *)
(* inside a try block, run the steps of the user journey in order, and     *)
(* release the session in the finally block.  The browser engine and the   *)
(* application under test are the environment: every awaited engine call   *)
(* either returns or raises, chosen nondeterministically.                  *)
(***************************************************************************)
EXTENDS Integers, Sequences, FiniteSets, TLC

(* Largest number of frames page.frames may hold (the main frame included). *)
MaxFrames == 2

(* context.set_default_timeout(5000) *)
DefaultTimeoutMs == 5000

Scenarios == {"TC004", "TC005", "TC007", "TC012"}

(***************************************************************************)
(* A step is one statement of the try body: the source line, the kind of   *)
(* call, the target of the call (URL, selector, asserted expression) and   *)
(* the names the statement reads.                                          *)
(***************************************************************************)
Step(l, k, t, n) == [line |-> l, kind |-> k, target |-> t, names |-> n]

(* Lines 11-45, identical in the four scripts: session acquisition, the    *)
(* first navigation, the best-effort load-state wait and the frame loop.   *)
Preamble ==
  << Step(11, "start", "async_playwright", {"async_api"}),
     Step(14, "launch", "chromium", {"pw"}),
     Step(25, "new_context", "browser", {"browser"}),
     Step(29, "new_page", "context", {"context"}),
     Step(32, "goto_commit", "http://localhost:5175", {"page"}),
     Step(36, "wait_for_load_state", "page", {"page", "async_api"}),
     Step(41, "frames", "page.frames", {"page", "async_api"}) >>

(* TC004 lines 49-84.  The statements of the for loops are listed once.    *)
TC004Body ==
  << Step(49, "scroll", "window.innerHeight", {"page", "window"}),
     Step(53, "query_selector_all", ".villa-card", {"page"}),
     Step(54, "assert", "len(villas) > 0", {"villas"}),
     Step(57, "query_selector", ".multimedia", {"villa"}),
     Step(58, "assert", "multimedia is not None", {"multimedia"}),
     Step(60, "query_selector", ".villa-title", {"villa"}),
     Step(61, "query_selector", ".villa-price", {"villa"}),
     Step(62, "query_selector", ".villa-location", {"villa"}),
     Step(63, "assert", "title is not None and price is not None and location is not None", {"title", "price", "location"}),
     Step(65, "query_selector_all", ".villa-card", {"page"}),
     Step(66, "assert", "len(filtered_villas) > 0", {"filtered_villas"}),
     Step(68, "inner_text", ".villa-location", {"villa"}),
     Step(69, "assert", "'Expected Location' in loc_text", {"loc_text"}),
     Step(71, "query_selector_all", ".villa-card", {"page"}),
     Step(72, "assert", "len(filtered_villas) > 0", {"filtered_villas"}),
     Step(74, "inner_text", ".villa-price", {"villa"}),
     Step(75, "float", "price_text", {"price_text"}),
     Step(76, "assert", "100 <= price_value <= 500", {"price_value"}),
     Step(78, "query_selector_all", ".villa-card", {"page"}),
     Step(79, "assert", "len(filtered_villas) > 0", {"filtered_villas"}),
     Step(81, "query_selector_all", ".amenity", {"villa"}),
     Step(82, "json_value", "textContent", {"amenities"}),
     Step(83, "assert", "'Pool' in amenity_texts", {"amenity_texts"}),
     Step(84, "sleep", "5", {"asyncio"}) >>

TC005Body ==
  << Step(49, "scroll", "window.innerHeight", {"page", "window"}),
     Step(52, "scroll", "-window.innerHeight", {"page", "window"}),
     Step(56, "goto_load", "http://localhost:5175/login", {"page"}),
     Step(61, "locate", "xpath=html/body/div/div/div/div/a", {"context", "frame"}),
     Step(62, "wait_for_timeout", "3000", {"page"}),
     Step(62, "click", "xpath=html/body/div/div/div/div/a", {"elem"}),
     Step(67, "locate", "xpath=html/body/div/div/div/div/div[2]/div/a[2]", {"context", "frame"}),
     Step(68, "wait_for_timeout", "3000", {"page"}),
     Step(68, "click", "xpath=html/body/div/div/div/div/div[2]/div/a[2]", {"elem"}),
     Step(73, "locate", "xpath=html/body/div/div/div/div/div/form/div/input", {"context", "frame"}),
     Step(74, "wait_for_timeout", "3000", {"page"}),
     Step(74, "fill", "xpath=html/body/div/div/div/div/div/form/div/input", {"elem"}),
     Step(78, "locate", "xpath=html/body/div/div/div/div/div/form/div[2]/input", {"context", "frame"}),
     Step(79, "wait_for_timeout", "3000", {"page"}),
     Step(79, "fill", "xpath=html/body/div/div/div/div/div/form/div[2]/input", {"elem"}),
     Step(83, "locate", "xpath=html/body/div/div/div/div/div/form/button", {"context", "frame"}),
     Step(84, "wait_for_timeout", "3000", {"page"}),
     Step(84, "click", "xpath=html/body/div/div/div/div/div/form/button", {"elem"}),
     Step(89, "locate", "xpath=html/body/div/div/div/div/div/div/a", {"context", "frame"}),
     Step(90, "wait_for_timeout", "3000", {"page"}),
     Step(90, "click", "xpath=html/body/div/div/div/div/div/div/a", {"elem"}),
     Step(95, "locate", "xpath=html/body/div/div/div/div/form/div/input", {"context", "frame"}),
     Step(96, "wait_for_timeout", "3000", {"page"}),
     Step(96, "fill", "xpath=html/body/div/div/div/div/form/div/input", {"elem"}),
     Step(100, "locate", "xpath=html/body/div/div/div/div/form/button", {"context", "frame"}),
     Step(101, "wait_for_timeout", "3000", {"page"}),
     Step(101, "click", "xpath=html/body/div/div/div/div/form/button", {"elem"}),
     Step(106, "locate", "xpath=html/body/div/div/div/div/div/div[2]/a", {"context", "frame"}),
     Step(107, "wait_for_timeout", "3000", {"page"}),
     Step(107, "click", "xpath=html/body/div/div/div/div/div/div[2]/a", {"elem"}),
     Step(112, "locate", "xpath=html/body/div/div/div/div/div/form/div/input", {"context", "frame"}),
     Step(113, "wait_for_timeout", "3000", {"page"}),
     Step(113, "fill", "xpath=html/body/div/div/div/div/div/form/div/input", {"elem"}),
     Step(117, "locate", "xpath=html/body/div/div/div/div/div/form/div[2]/input", {"context", "frame"}),
     Step(118, "wait_for_timeout", "3000", {"page"}),
     Step(118, "fill", "xpath=html/body/div/div/div/div/div/form/div[2]/input", {"elem"}),
     Step(122, "locate", "xpath=html/body/div/div/div/div/div/form/button", {"context", "frame"}),
     Step(123, "wait_for_timeout", "3000", {"page"}),
     Step(123, "click", "xpath=html/body/div/div/div/div/div/form/button", {"elem"}),
     Step(128, "locate", "xpath=html/body/div/div/div/div/div/div/div/a", {"context", "frame"}),
     Step(129, "wait_for_timeout", "3000", {"page"}),
     Step(129, "click", "xpath=html/body/div/div/div/div/div/div/div/a", {"elem"}),
     Step(134, "locate", "xpath=html/body/div/div/div/div/form/div[2]/input", {"context", "frame"}),
     Step(135, "wait_for_timeout", "3000", {"page"}),
     Step(135, "fill", "xpath=html/body/div/div/div/div/form/div[2]/input", {"elem"}),
     Step(139, "locate", "xpath=html/body/div/div/div/div/form/div[3]/input", {"context", "frame"}),
     Step(140, "wait_for_timeout", "3000", {"page"}),
     Step(140, "fill", "xpath=html/body/div/div/div/div/form/div[3]/input", {"elem"}),
     Step(144, "locate", "xpath=html/body/div/div/div/div/form/div[4]/div/input", {"context", "frame"}),
     Step(145, "wait_for_timeout", "3000", {"page"}),
     Step(145, "fill", "xpath=html/body/div/div/div/div/form/div[4]/div/input", {"elem"}),
     Step(149, "locate", "xpath=html/body/div/div/div/div/form/div[5]/label/input", {"context", "frame"}),
     Step(150, "wait_for_timeout", "3000", {"page"}),
     Step(150, "click", "xpath=html/body/div/div/div/div/form/div[5]/label/input", {"elem"}),
     Step(154, "locate", "xpath=html/body/div/div/div/div/form/button", {"context", "frame"}),
     Step(155, "wait_for_timeout", "3000", {"page"}),
     Step(155, "click", "xpath=html/body/div/div/div/div/form/button", {"elem"}),
     Step(160, "locate", "xpath=html/body/div/div/div[2]/div/div/form/div/input", {"context", "frame"}),
     Step(161, "wait_for_timeout", "3000", {"page"}),
     Step(161, "fill", "xpath=html/body/div/div/div[2]/div/div/form/div/input", {"elem"}),
     Step(165, "locate", "xpath=html/body/div/div/div[2]/div/div/form/div[2]/input", {"context", "frame"}),
     Step(166, "wait_for_timeout", "3000", {"page"}),
     Step(166, "fill", "xpath=html/body/div/div/div[2]/div/div/form/div[2]/input", {"elem"}),
     Step(170, "locate", "xpath=html/body/div/div/div[2]/div/div/form/button", {"context", "frame"}),
     Step(171, "wait_for_timeout", "3000", {"page"}),
     Step(171, "click", "xpath=html/body/div/div/div[2]/div/div/form/button", {"elem"}),
     Step(174, "assert", "False", {}),
     Step(175, "sleep", "5", {"asyncio"}) >>

TC007Body ==
  << Step(50, "locate", "xpath=html/body/div/div/div/div/div[2]/div/a[2]", {"context", "frame"}),
     Step(51, "wait_for_timeout", "3000", {"page"}),
     Step(51, "click", "xpath=html/body/div/div/div/div/div[2]/div/a[2]", {"elem"}),
     Step(56, "locate", "xpath=html/body/div/div/div/div/div/form/div/input", {"context", "frame"}),
     Step(57, "wait_for_timeout", "3000", {"page"}),
     Step(57, "fill", "xpath=html/body/div/div/div/div/div/form/div/input", {"elem"}),
     Step(61, "locate", "xpath=html/body/div/div/div/div/div/form/div[2]/input", {"context", "frame"}),
     Step(62, "wait_for_timeout", "3000", {"page"}),
     Step(62, "fill", "xpath=html/body/div/div/div/div/div/form/div[2]/input", {"elem"}),
     Step(66, "locate", "xpath=html/body/div/div/div/div/div/form/button", {"context", "frame"}),
     Step(67, "wait_for_timeout", "3000", {"page"}),
     Step(67, "click", "xpath=html/body/div/div/div/div/div/form/button", {"elem"}),
     Step(72, "locate", "xpath=html/body/div/div/nav/div/div/a", {"context", "frame"}),
     Step(73, "wait_for_timeout", "3000", {"page"}),
     Step(73, "click", "xpath=html/body/div/div/nav/div/div/a", {"elem"}),
     Step(78, "locate", "xpath=html/body/div/div/div/div[2]/section/div[2]/div/a", {"context", "frame"}),
     Step(79, "wait_for_timeout", "3000", {"page"}),
     Step(79, "click", "xpath=html/body/div/div/div/div[2]/section/div[2]/div/a", {"elem"}),
     Step(84, "locate", "xpath=html/body/div/div/nav/div/div/a", {"context", "frame"}),
     Step(85, "wait_for_timeout", "3000", {"page"}),
     Step(85, "click", "xpath=html/body/div/div/nav/div/div/a", {"elem"}),
     Step(90, "locate", "xpath=html/body/div/div/div/div[2]/section/div[2]/div/a[2]", {"context", "frame"}),
     Step(91, "wait_for_timeout", "3000", {"page"}),
     Step(91, "click", "xpath=html/body/div/div/div/div[2]/section/div[2]/div/a[2]", {"elem"}),
     Step(96, "locate", "xpath=html/body/div/div/nav/div/div/a", {"context", "frame"}),
     Step(97, "wait_for_timeout", "3000", {"page"}),
     Step(97, "click", "xpath=html/body/div/div/nav/div/div/a", {"elem"}),
     Step(102, "locate", "xpath=html/body/div/div/div/div[2]/section/div[2]/div/a[3]", {"context", "frame"}),
     Step(103, "wait_for_timeout", "3000", {"page"}),
     Step(103, "click", "xpath=html/body/div/div/div/div[2]/section/div[2]/div/a[3]", {"elem"}),
     Step(108, "locate", "xpath=html/body/div/div/nav/div/div/a", {"context", "frame"}),
     Step(109, "wait_for_timeout", "3000", {"page"}),
     Step(109, "click", "xpath=html/body/div/div/nav/div/div/a", {"elem"}),
     Step(114, "locate", "xpath=html/body/div/div/div/div/div[2]/form/input", {"context", "frame"}),
     Step(115, "wait_for_timeout", "3000", {"page"}),
     Step(115, "fill", "xpath=html/body/div/div/div/div/div[2]/form/input", {"elem"}),
     Step(119, "locate", "xpath=html/body/div/div/div/div/div[2]/form/input[2]", {"context", "frame"}),
     Step(120, "wait_for_timeout", "3000", {"page"}),
     Step(120, "fill", "xpath=html/body/div/div/div/div/div[2]/form/input[2]", {"elem"}),
     Step(124, "locate", "xpath=html/body/div/div/div/div/div[2]/form/input[3]", {"context", "frame"}),
     Step(125, "wait_for_timeout", "3000", {"page"}),
     Step(125, "fill", "xpath=html/body/div/div/div/div/div[2]/form/input[3]", {"elem"}),
     Step(129, "locate", "xpath=html/body/div/div/div/div/div[2]/form/input[4]", {"context", "frame"}),
     Step(130, "wait_for_timeout", "3000", {"page"}),
     Step(130, "fill", "xpath=html/body/div/div/div/div/div[2]/form/input[4]", {"elem"}),
     Step(134, "locate", "xpath=html/body/div/div/div/div/div[2]/form/button", {"context", "frame"}),
     Step(135, "wait_for_timeout", "3000", {"page"}),
     Step(135, "click", "xpath=html/body/div/div/div/div/div[2]/form/button", {"elem"}),
     Step(140, "locate", "xpath=html/body/div/div/div/div/div[3]/div/div[2]/div/div/div/a", {"context", "frame"}),
     Step(141, "wait_for_timeout", "3000", {"page"}),
     Step(141, "click", "xpath=html/body/div/div/div/div/div[3]/div/div[2]/div/div/div/a", {"elem"}),
     Step(146, "locate", "xpath=html/body/div/div/nav/div/div/a", {"context", "frame"}),
     Step(147, "wait_for_timeout", "3000", {"page"}),
     Step(147, "click", "xpath=html/body/div/div/nav/div/div/a", {"elem"}),
     Step(150, "assert", "False", {}),
     Step(151, "sleep", "5", {"asyncio"}) >>

TC012Body ==
  << Step(49, "scroll", "window.innerHeight", {"page", "window"}),
     Step(53, "goto_load", "http://localhost:5175/login", {"page"}),
     Step(57, "goto_load", "http://localhost:5175/home", {"page"}),
     Step(62, "locate", "xpath=html/body/div/div/div/div/a", {"context", "frame"}),
     Step(63, "wait_for_timeout", "3000", {"page"}),
     Step(63, "click", "xpath=html/body/div/div/div/div/a", {"elem"}),
     Step(68, "locate", "xpath=html/body/div/div/div/div/div[2]/div/a[2]", {"context", "frame"}),
     Step(69, "wait_for_timeout", "3000", {"page"}),
     Step(69, "click", "xpath=html/body/div/div/div/div/div[2]/div/a[2]", {"elem"}),
     Step(74, "locate", "xpath=html/body/div/div/div/div/div/form/div/input", {"context", "frame"}),
     Step(75, "wait_for_timeout", "3000", {"page"}),
     Step(75, "fill", "xpath=html/body/div/div/div/div/div/form/div/input", {"elem"}),
     Step(79, "locate", "xpath=html/body/div/div/div/div/div/form/div[2]/input", {"context", "frame"}),
     Step(80, "wait_for_timeout", "3000", {"page"}),
     Step(80, "fill", "xpath=html/body/div/div/div/div/div/form/div[2]/input", {"elem"}),
     Step(84, "locate", "xpath=html/body/div/div/div/div/div/form/button", {"context", "frame"}),
     Step(85, "wait_for_timeout", "3000", {"page"}),
     Step(85, "click", "xpath=html/body/div/div/div/div/div/form/button", {"elem"}),
     Step(90, "locate", "xpath=html/body/div/div/div/div/div/div/div/a", {"context", "frame"}),
     Step(91, "wait_for_timeout", "3000", {"page"}),
     Step(91, "click", "xpath=html/body/div/div/div/div/div/div/div/a", {"elem"}),
     Step(96, "locate", "xpath=html/body/div/div/div/div/form/div[2]/input", {"context", "frame"}),
     Step(97, "wait_for_timeout", "3000", {"page"}),
     Step(97, "fill", "xpath=html/body/div/div/div/div/form/div[2]/input", {"elem"}),
     Step(101, "locate", "xpath=html/body/div/div/div/div/form/div[3]/input", {"context", "frame"}),
     Step(102, "wait_for_timeout", "3000", {"page"}),
     Step(102, "fill", "xpath=html/body/div/div/div/div/form/div[3]/input", {"elem"}),
     Step(106, "locate", "xpath=html/body/div/div/div/div/form/div[4]/div/input", {"context", "frame"}),
     Step(107, "wait_for_timeout", "3000", {"page"}),
     Step(107, "fill", "xpath=html/body/div/div/div/div/form/div[4]/div/input", {"elem"}),
     Step(111, "locate", "xpath=html/body/div/div/div/div/form/div[5]/label/input", {"context", "frame"}),
     Step(112, "wait_for_timeout", "3000", {"page"}),
     Step(112, "click", "xpath=html/body/div/div/div/div/form/div[5]/label/input", {"elem"}),
     Step(116, "locate", "xpath=html/body/div/div/div/div/form/button", {"context", "frame"}),
     Step(117, "wait_for_timeout", "3000", {"page"}),
     Step(117, "click", "xpath=html/body/div/div/div/div/form/button", {"elem"}),
     Step(120, "assert", "False", {}),
     Step(121, "sleep", "5", {"asyncio"}) >>

Script(s) ==
  Preamble \o (CASE s = "TC004" -> TC004Body
                 [] s = "TC005" -> TC005Body
                 [] s = "TC007" -> TC007Body
                 [] s = "TC012" -> TC012Body)

(* First line of the finally block of each script. *)
FinallyLine(s) ==
  CASE s = "TC004" -> 86
    [] s = "TC005" -> 177
    [] s = "TC007" -> 153
    [] s = "TC012" -> 123

(* A script whose module also binds the browser-side name window. *)
ModuleNamesWithWindow == {"asyncio", "async_api", "run_test", "window"}

(* Names bound at module level: the two imports and run_test itself. *)
ModuleNames == {"asyncio", "async_api", "run_test"}

(* Names run_test assigns, hence local to it. *)
LocalNames(s) ==
  {"pw", "browser", "context", "page", "frame"}
    \cup (IF s = "TC004"
          THEN {"villas", "villa", "multimedia", "title", "price", "location",
                "filtered_villas", "loc_text", "price_text", "price_value",
                "amenities", "amenity", "amenity_texts"}
          ELSE {"elem"})

(* Names a statement reads that no scope binds: evaluating the statement   *)
(* raises NameError before the call is made.                               *)
Undefined(s, st) == st.names \ (ModuleNames \cup LocalNames(s))

(* What executing a statement can produce. TimeoutError is a subclass of   *)
(* the engine's Error.                                                     *)
Outcomes(s, st) ==
  IF Undefined(s, st) # {} THEN {"NameError"}
  ELSE IF st.kind \in {"locate", "sleep"} THEN {"ok"}
  ELSE IF st.kind = "assert"
       THEN (IF st.target = "False" THEN {"AssertionError"}
             ELSE {"ok", "AssertionError"})
  ELSE IF st.kind = "float" THEN {"ok", "ValueError"}
  ELSE {"ok", "TimeoutError", "Error"}

(* A handler that names only the timeout subclass. *)
CatchesTimeoutOnly(st, o) ==
  /\ st.kind \in {"wait_for_load_state", "frames"}
  /\ o = "TimeoutError"

(* try: await ...wait_for_load_state(...)  except async_api.Error: pass *)
Catches(st, o) ==
  /\ st.kind \in {"wait_for_load_state", "frames"}
  /\ o \in {"Error", "TimeoutError"}

(* The engine stopped first, the context last. *)
FinallyOrderAcquisition == <<"pw", "browser", "context">>

(* The finally block: if context: close; if browser: close; if pw: stop. *)
FinallyOrder == <<"context", "browser", "pw">>

(* What a successful close call takes down with it. *)
Closes(r) ==
  CASE r = "context" -> {"context", "page"}
    [] r = "browser" -> {"browser", "context", "page"}
    [] r = "pw" -> {"pw", "browser", "context", "page"}

NoExc == [type |-> "None", line |-> 0, target |-> "", at |-> 0]

ExcOf(o, st, p) == [type |-> o, line |-> st.line, target |-> st.target, at |-> p]

(* The value None of a handle variable; a handle is <<run that created it, kind>>. *)
NoHandle == <<0, "None">>

(* Nothing asserted yet. *)
NoResult ==
  [passed |-> TRUE, type |-> "None", line |-> 0, card |-> 0, msg |-> <<>>,
   values |-> <<>>]

VARIABLES
  scenario,      \* which script runs
  ctl,           \* NotStarted, Body, Finally, Blocked, Exited
  pc,            \* index of the current statement of the try body
  tdpc,          \* index of the current statement of the finally block
  state,         \* NotStarted, Running, Passed, Failed
  exc,           \* the exception in flight (NoExc when none)
  bodyExc,       \* the exception the try body raised (NoExc when none)
  pw, browser, context, page,   \* the local variables: None or a handle
  defaultTimeout,               \* the context's default timeout, 0 = unset
  open,          \* engine resources currently open
  acqLog,        \* resources in the order they were acquired
  closeLog,      \* close calls issued, in order, with their outcome
  stepLog,       \* indices of the statements executed, in order
  frames,        \* length of the page.frames snapshot, 0 = not taken
  frameIdx,      \* position of the for loop in the snapshot
  frameWaits,    \* outcome of each frame's load-state wait
  pageWait,      \* outcome of the page's load-state wait
  finallyCount,  \* times the finally block was entered
  verdictCount,  \* times run_test handed an outcome to asyncio.run
  pageFrames,    \* frames attached to the page (main frame included), 0 = no page loaded
  cards,         \* the .villa-card elements of the page under check
  checked,       \* which block of assertions was applied to the cards
  presented,     \* the cards the assertion loop was given
  result,        \* what the block of assertions produced
  runs,          \* concurrent runs: position of each run
  cell,          \* concurrent runs: value of each variable cell
  pagesOf,       \* concurrent runs: the pages opened in each context
  lastUse        \* concurrent runs: the last call on a handle, <<run, handle>>

vars == <<scenario, ctl, pc, tdpc, state, exc, bodyExc, pw, browser, context,
          page, defaultTimeout, open, acqLog, closeLog, stepLog, frames,
          frameIdx, frameWaits, pageWait, finallyCount, verdictCount,
          pageFrames, cards, checked, presented, result, runs, cell, pagesOf,
          lastUse>>

session == <<pw, browser, context, page, defaultTimeout, open, acqLog>>
loopVars == <<frames, frameIdx, frameWaits, pageWait>>
fixture == <<cards, checked, presented, result>>
multi == <<runs, cell, pagesOf, lastUse>>

Cur == Script(scenario)[pc]

Init ==
  /\ scenario \in Scenarios
  /\ ctl = "NotStarted"
  /\ pc = 0
  /\ tdpc = 0
  /\ state = "NotStarted"
  /\ exc = NoExc
  /\ bodyExc = NoExc
  /\ pw = "unbound" /\ browser = "unbound" /\ context = "unbound"
  /\ page = "unbound"
  /\ defaultTimeout = 0
  /\ open = {}
  /\ acqLog = <<>>
  /\ closeLog = <<>>
  /\ stepLog = <<>>
  /\ frames = 0
  /\ frameIdx = 0
  /\ frameWaits = <<>>
  /\ pageWait = "none"
  /\ finallyCount = 0
  /\ verdictCount = 0
  /\ pageFrames = 0
  /\ cards = <<>> /\ checked = "none" /\ presented = <<>> /\ result = NoResult
  /\ runs = <<>> /\ cell = <<>> /\ pagesOf = <<>> /\ lastUse = <<0, NoHandle>>

(* Where control goes when statement p of the try body completes: the next *)
(* statement, or off the end of the body into the finally block.           *)
Normal(s, p) ==
  IF p < Len(Script(s)) THEN [ctl |-> "Body", pc |-> p + 1]
  ELSE [ctl |-> "Finally", pc |-> p]

(* A failure that is swallowed: control moves on to the next statement. *)
OnRaiseContinue(p) == [ctl |-> "Body", pc |-> p + 1]

(* A body without try/finally: the exception leaves run_test at once. *)
OnRaiseSkipFinally(p) == [ctl |-> "Exited", pc |-> p]

(* A runner that runs the failed statement again. *)
OnRaiseRetry(p) == [ctl |-> "Body", pc |-> p]

(* Where control goes when statement p of the try body raises: there is no *)
(* except clause around a hard step, so straight into the finally block.   *)
OnRaise(p) == [ctl |-> "Finally", pc |-> p]

(* A runner that starts the failed statement again after the teardown. *)
AfterFinallyResume == "Body"

(* Where control goes when the finally block is left. *)
AfterFinally == "Exited"

Control(to) ==
  /\ ctl' = to.ctl
  /\ pc' = to.pc
  /\ tdpc' = IF to.ctl = "Finally" THEN 1 ELSE tdpc
  /\ finallyCount' = IF to.ctl = "Finally" THEN finallyCount + 1
                     ELSE finallyCount

Return ==
  /\ stepLog' = Append(stepLog, pc)
  /\ Control(Normal(scenario, pc))
  /\ state' = IF Normal(scenario, pc).ctl = "Finally" THEN "Passed" ELSE state
  /\ UNCHANGED <<exc, bodyExc>>

Raise(e) ==
  /\ stepLog' = Append(stepLog, pc)
  /\ Control(OnRaise(pc))
  /\ exc' = e
  /\ bodyExc' = e
  /\ state' = "Failed"

(* asyncio.run(run_test()): pw = browser = context = None, enter the try. *)
RunTest ==
  /\ ctl = "NotStarted"
  /\ ctl' = "Body"
  /\ pc' = 1
  /\ state' = "Running"
  /\ pw' = "None" /\ browser' = "None" /\ context' = "None"
  /\ UNCHANGED <<scenario, tdpc, exc, bodyExc, page, defaultTimeout, open,
                 acqLog, closeLog, stepLog, loopVars, finallyCount,
                 verdictCount>>
  /\ UNCHANGED <<pageFrames, fixture, multi>>

(* pw = await async_api.async_playwright().start() *)
StartPlaywright ==
  /\ ctl = "Body" /\ Cur.kind = "start"
  /\ \E o \in Outcomes(scenario, Cur) :
       IF o = "ok"
       THEN /\ pw' = "handle"
            /\ open' = open \cup {"pw"}
            /\ acqLog' = Append(acqLog, "pw")
            /\ Return
       ELSE /\ Raise(ExcOf(o, Cur, pc))
            /\ UNCHANGED <<pw, open, acqLog>>
  /\ UNCHANGED <<scenario, browser, context, page, defaultTimeout, closeLog,
                 loopVars, verdictCount>>
  /\ UNCHANGED <<pageFrames, fixture, multi>>

(* browser = await pw.chromium.launch(headless=True, args=[...]) *)
LaunchBrowser ==
  /\ ctl = "Body" /\ Cur.kind = "launch"
  /\ \E o \in Outcomes(scenario, Cur) :
       IF o = "ok"
       THEN /\ browser' = "handle"
            /\ open' = open \cup {"browser"}
            /\ acqLog' = Append(acqLog, "browser")
            /\ Return
       ELSE /\ Raise(ExcOf(o, Cur, pc))
            /\ UNCHANGED <<browser, open, acqLog>>
  /\ UNCHANGED <<scenario, pw, context, page, defaultTimeout, closeLog,
                 loopVars, verdictCount>>
  /\ UNCHANGED <<pageFrames, fixture, multi>>

(* context = await browser.new_context(); context.set_default_timeout(5000) *)
NewContext ==
  /\ ctl = "Body" /\ Cur.kind = "new_context"
  /\ \E o \in Outcomes(scenario, Cur) :
       IF o = "ok"
       THEN /\ context' = "handle"
            /\ defaultTimeout' = DefaultTimeoutMs
            /\ open' = open \cup {"context"}
            /\ acqLog' = Append(acqLog, "context")
            /\ Return
       ELSE /\ Raise(ExcOf(o, Cur, pc))
            /\ UNCHANGED <<context, defaultTimeout, open, acqLog>>
  /\ UNCHANGED <<scenario, pw, browser, page, closeLog, loopVars,
                 verdictCount>>
  /\ UNCHANGED <<pageFrames, fixture, multi>>

(* page = await context.new_page() *)
NewPage ==
  /\ ctl = "Body" /\ Cur.kind = "new_page"
  /\ \E o \in Outcomes(scenario, Cur) :
       IF o = "ok"
       THEN /\ page' = "handle"
            /\ open' = open \cup {"page"}
            /\ acqLog' = Append(acqLog, "page")
            /\ Return
       ELSE /\ Raise(ExcOf(o, Cur, pc))
            /\ UNCHANGED <<page, open, acqLog>>
  /\ UNCHANGED <<scenario, pw, browser, context, defaultTimeout, closeLog,
                 loopVars, verdictCount>>
  /\ UNCHANGED <<pageFrames, fixture, multi>>

(* await page.goto(url, ...): a full navigation; the frames of the page    *)
(* are torn down, so an earlier snapshot of page.frames is stale.          *)
Goto ==
  /\ ctl = "Body" /\ Cur.kind \in {"goto_commit", "goto_load"}
  /\ \E o \in Outcomes(scenario, Cur) :
       IF o = "ok"
       THEN /\ \E n \in 1..MaxFrames : pageFrames' = n
            /\ Return
       ELSE /\ Raise(ExcOf(o, Cur, pc))
            /\ UNCHANGED pageFrames
  /\ UNCHANGED <<scenario, session, closeLog, loopVars, verdictCount>>
  /\ UNCHANGED <<fixture, multi>>

(* try: await page.wait_for_load_state("domcontentloaded", timeout=3000)   *)
(* except async_api.Error: pass                                            *)
WaitForLoadState ==
  /\ ctl = "Body" /\ Cur.kind = "wait_for_load_state"
  /\ \E o \in Outcomes(scenario, Cur) :
       IF o = "ok" \/ Catches(Cur, o)
       THEN /\ pageWait' = o
            /\ Return
       ELSE /\ Raise(ExcOf(o, Cur, pc))
            /\ UNCHANGED pageWait
  /\ UNCHANGED <<scenario, session, closeLog, frames, frameIdx, frameWaits,
                 verdictCount>>
  /\ UNCHANGED <<pageFrames, fixture, multi>>

(* A list that leaves out the main frame. *)
PageFramesChildrenOnly(n) == [i \in 1..(n - 1) |-> i + 1]

(* page.frames: a list with one entry per frame attached to the page, the  *)
(* main frame first.                                                       *)
PageFramesList(n) == [i \in 1..n |-> i]

(* for frame in page.frames: the list is read once, when the loop starts;  *)
(* it always holds the main frame.                                         *)
EnumerateFrames ==
  /\ ctl = "Body" /\ Cur.kind = "frames" /\ frames = 0
  /\ IF Undefined(scenario, Cur) # {}
     THEN /\ Raise(ExcOf("NameError", Cur, pc))
          /\ UNCHANGED <<frames, frameIdx>>
     ELSE /\ frames' = Len(PageFramesList(pageFrames))
          /\ frameIdx' = 1
          /\ stepLog' = Append(stepLog, pc)
          /\ UNCHANGED <<ctl, pc, tdpc, state, exc, bodyExc, finallyCount>>
  /\ UNCHANGED <<scenario, session, closeLog, frameWaits, pageWait,
                 verdictCount, pageFrames>>
  /\ UNCHANGED <<fixture, multi>>

(* Loop body: try: await frame.wait_for_load_state("domcontentloaded",     *)
(* timeout=3000) except async_api.Error: pass.  After the last frame the   *)
(* loop ends and control moves to the next statement.                      *)
FrameWait ==
  /\ ctl = "Body" /\ Cur.kind = "frames" /\ frames > 0 /\ frameIdx <= frames
  /\ \E o \in {"ok", "TimeoutError", "Error"} :
       IF o = "ok" \/ Catches(Cur, o)
       THEN /\ frameWaits' = Append(frameWaits, o)
            /\ frameIdx' = frameIdx + 1
            /\ IF frameIdx = frames
               THEN /\ Control(Normal(scenario, pc))
                    /\ state' = IF Normal(scenario, pc).ctl = "Finally"
                                THEN "Passed" ELSE state
               ELSE UNCHANGED <<ctl, pc, tdpc, state, finallyCount>>
            /\ UNCHANGED <<exc, bodyExc, stepLog>>
       ELSE /\ Raise(ExcOf(o, Cur, pc))
            /\ UNCHANGED <<frameWaits, frameIdx>>
  /\ UNCHANGED <<scenario, session, closeLog, frames, pageWait, verdictCount>>
  /\ UNCHANGED <<pageFrames, fixture, multi>>

(* Every other statement of the try body: scroll, locate, wait, click,     *)
(* fill, query, extraction, assert, sleep.  None is wrapped in a handler.  *)
ExecStep ==
  /\ ctl = "Body"
  /\ Cur.kind \notin {"start", "launch", "new_context", "new_page",
                      "goto_commit", "goto_load", "wait_for_load_state",
                      "frames"}
  /\ \E o \in Outcomes(scenario, Cur) :
       IF o = "ok" THEN Return ELSE Raise(ExcOf(o, Cur, pc))
  /\ UNCHANGED <<scenario, session, closeLog, loopVars, verdictCount>>
  /\ UNCHANGED <<pageFrames, fixture, multi>>

(* A finally block without the if tests: every close call is made. *)
HandleUntested(r) == "handle"

(* The variable a statement of the finally block tests and closes. *)
Handle(r) ==
  CASE r = "context" -> context
    [] r = "browser" -> browser
    [] r = "pw" -> pw

(* One statement of the finally block: if <handle>: await <handle>.close() *)
(* (pw.stop() for the engine).  A None handle is skipped.  A close call    *)
(* that raises leaves the block at once: the new exception replaces the    *)
(* one in flight and the remaining statements are not run.                 *)
CloseResource ==
  /\ ctl = "Finally" /\ tdpc \in 1..Len(FinallyOrder)
  /\ LET r == FinallyOrder[tdpc] IN
       IF Handle(r) # "handle"
       THEN /\ tdpc' = tdpc + 1
            /\ UNCHANGED <<closeLog, open, exc, state>>
       ELSE \E o \in {"ok", "Error"} :
              /\ closeLog' = Append(closeLog, [res |-> r, outcome |-> o])
              /\ IF o = "ok"
                 THEN /\ open' = open \ Closes(r)
                      /\ tdpc' = tdpc + 1
                      /\ UNCHANGED <<exc, state>>
                 ELSE /\ exc' = [type |-> "Error",
                                 line |-> FinallyLine(scenario) + 2 * tdpc,
                                 target |-> r, at |-> 0]
                      /\ state' = "Failed"
                      /\ tdpc' = Len(FinallyOrder) + 1
                      /\ UNCHANGED open
  /\ UNCHANGED <<scenario, ctl, pc, bodyExc, pw, browser, context, page,
                 defaultTimeout, acqLog, stepLog, loopVars, finallyCount,
                 verdictCount>>
  /\ UNCHANGED <<pageFrames, fixture, multi>>

(* run_test is left: it returns, or the exception in flight propagates to  *)
(* asyncio.run, which ends the process.                                    *)
Exit ==
  /\ ctl = "Finally" /\ tdpc > Len(FinallyOrder)
  /\ ctl' = AfterFinally
  /\ verdictCount' = verdictCount + 1
  /\ UNCHANGED <<scenario, pc, tdpc, state, exc, bodyExc, session, closeLog,
                 stepLog, loopVars, finallyCount>>
  /\ UNCHANGED <<pageFrames, fixture, multi>>

Next ==
  \/ RunTest
  \/ StartPlaywright
  \/ LaunchBrowser
  \/ NewContext
  \/ NewPage
  \/ Goto
  \/ WaitForLoadState
  \/ EnumerateFrames
  \/ FrameWait
  \/ ExecStep
  \/ CloseResource
  \/ Exit

Spec == Init /\ [][Next]_vars

(* The bound on the time an awaited call may take: "explicit" when the     *)
(* call passes timeout=, "inherited" when the call takes the context's     *)
(* default timeout, "default" when the engine applies its own default      *)
(* (browser launch), "timer" for a sleep of fixed length, "sync" for a     *)
(* statement that awaits nothing, "none" when nothing bounds the call.     *)
Bound(st) ==
  IF st.kind \in {"goto_commit", "goto_load", "wait_for_load_state",
                  "frames", "click"} THEN "explicit"
  ELSE IF st.kind = "fill" THEN "inherited"
  ELSE IF st.kind = "launch" THEN "default"
  ELSE IF st.kind \in {"wait_for_timeout", "sleep"} THEN "timer"
  ELSE IF st.kind \in {"locate", "assert", "float"} THEN "sync"
  ELSE "none"

(* await context.close(), await browser.close(), await pw.stop(): no       *)
(* timeout argument, and the context's default does not apply to them.     *)
CloseBound(r) == "none"

(* The engine never answers an awaited call that nothing bounds: the       *)
(* coroutine stays suspended in that call.                                 *)
Hang ==
  /\ \/ /\ ctl = "Body"
        /\ Undefined(scenario, Cur) = {}
        /\ Bound(Cur) = "none"
     \/ /\ ctl = "Finally"
        /\ tdpc \in 1..Len(FinallyOrder)
        /\ Handle(FinallyOrder[tdpc]) = "handle"
        /\ CloseBound(FinallyOrder[tdpc]) = "none"
  /\ ctl' = "Blocked"
  /\ UNCHANGED <<scenario, pc, tdpc, state, exc, bodyExc, session, closeLog,
                 stepLog, loopVars, finallyCount, verdictCount, pageFrames,
                 fixture, multi>>

NextHang == Next \/ Hang

(* The runs of the scripts against an engine that may stop answering. *)
SpecHang == Init /\ [][NextHang]_vars

(***************************************************************************)
(* The assertions of TC004 on the listing page (lines 53-63 and 71-76),    *)
(* as functions of the page's .villa-card elements.  A card records which  *)
(* of its child elements exist and the inner text of its price element; a  *)
(* text is a sequence of characters.                                       *)
(***************************************************************************)
MaxListingCards == 3

MaxPricedCards == 4

MaxTextLen == 4

Digits == {"0", "1", "2", "3", "4", "5", "6", "7", "8", "9"}

DigitValue(c) ==
  CASE c = "0" -> 0 [] c = "1" -> 1 [] c = "2" -> 2 [] c = "3" -> 3
    [] c = "4" -> 4 [] c = "5" -> 5 [] c = "6" -> 6 [] c = "7" -> 7
    [] c = "8" -> 8 [] c = "9" -> 9

(* str.replace(ch, ''): every occurrence of ch is removed. *)
Replace(t, ch) == SelectSeq(t, LAMBDA c : c # ch)

(* Only the currency symbol is removed. *)
StripDollarOnly(t) == Replace(t, "$")

(* price_text.replace('$','').replace(',','') *)
StripPrice(t) == Replace(Replace(t, "$"), ",")

RECURSIVE NumberOf(_)
NumberOf(ds) ==
  IF ds = <<>> THEN 0
  ELSE 10 * NumberOf(SubSeq(ds, 1, Len(ds) - 1)) + DigitValue(ds[Len(ds)])

(* float(t) for a text of digits, points and other printable characters:   *)
(* digits with at most one point and at least one digit are a number, any  *)
(* other text raises ValueError.  The value is mant / 10^scale.            *)
Float(t) ==
  LET points == {i \in DOMAIN t : t[i] = "."}
      digs == SelectSeq(t, LAMBDA c : c \in Digits)
  IN IF /\ \A i \in DOMAIN t : t[i] \in Digits \cup {"."}
        /\ Cardinality(points) <= 1
        /\ digs # <<>>
     THEN [ok |-> TRUE, mant |-> NumberOf(digs),
           scale |-> IF points = {} THEN 0
                     ELSE Len(t) - (CHOOSE i \in points : TRUE)]
     ELSE [ok |-> FALSE, mant |-> 0, scale |-> 0]

RECURSIVE Pow10(_)
Pow10(n) == IF n = 0 THEN 1 ELSE 10 * Pow10(n - 1)

(* 100 <= price_value <= 500 *)
InRange(v) == 100 * Pow10(v.scale) <= v.mant /\ v.mant <= 500 * Pow10(v.scale)

(* The message of each assert statement, word by word; a value the f-string *)
(* interpolates is the word "{name}".                                      *)
AssertMessage(line) ==
  CASE line = 54 -> <<"No", "villas", "found", "on", "the", "listing", "page">>
    [] line = 58 -> <<"Villa", "multimedia", "not", "found">>
    [] line = 63 -> <<"Key", "villa", "information", "missing">>
    [] line = 66 -> <<"No", "villas", "found", "after", "applying", "location", "filter">>
    [] line = 69 -> <<"Villa", "location", "{loc_text}", "does", "not", "match", "filter">>
    [] line = 72 -> <<"No", "villas", "found", "after", "applying", "price", "filter">>
    [] line = 76 -> <<"Villa", "price", "{price_value}", "out", "of", "range">>
    [] line = 79 -> <<"No", "villas", "found", "after", "applying", "amenities", "filter">>
    [] line = 83 -> <<"Villa", "missing", "required", "amenity:", "Pool">>
    [] OTHER -> <<"Test", "plan", "execution", "failed:", "generic", "failure", "assertion.">>

(* The message of an exception, word by word.  An AssertionError carries   *)
(* the message of its assert statement; a NameError names the unbound      *)
(* name; a ValueError of float() quotes the text; an engine error names    *)
(* the call and what it was made on (URL, selector, resource).             *)
Reason(s, e) ==
  IF e = NoExc THEN <<>>
  ELSE IF e.type = "AssertionError" THEN AssertMessage(e.line)
  ELSE IF e.type = "NameError"
       THEN <<"name", CHOOSE n \in Undefined(s, Script(s)[e.at]) : TRUE,
              "is", "not", "defined">>
  ELSE IF e.type = "ValueError"
       THEN <<"could", "not", "convert", "string", "to", "float:", "{price_text}">>
  ELSE <<e.type, e.target>>

Failure(type, line, card, vals) ==
  [passed |-> FALSE, type |-> type, line |-> line, card |-> card,
   msg |-> IF type = "AssertionError" THEN AssertMessage(line) ELSE <<type>>,
   values |-> vals]

(* page.query_selector_all('.villa-card'): every card of the page, in      *)
(* document order.  No statement of the script applies a filter first.     *)
QuerySelectorAll(cs) == cs

(* Lines 55-63: for villa in villas: multimedia, then title, price and     *)
(* location must not be None.                                              *)
RECURSIVE ListingLoop(_, _)
ListingLoop(cs, i) ==
  IF i > Len(cs) THEN NoResult
  ELSE IF ~cs[i].multimedia THEN Failure("AssertionError", 58, i, <<>>)
  ELSE IF ~(cs[i].title /\ cs[i].price /\ cs[i].location)
       THEN Failure("AssertionError", 63, i, <<>>)
  ELSE ListingLoop(cs, i + 1)

(* Lines 53-63. *)
ListingCheck(cs) ==
  LET villas == QuerySelectorAll(cs) IN
    IF ~(Len(villas) > 0) THEN Failure("AssertionError", 54, 0, <<>>)
    ELSE ListingLoop(villas, 1)

(* Lines 73-76: for villa in filtered_villas: read the price text, strip   *)
(* it, convert it, assert the range.  inner_text() on a missing price      *)
(* element is a call on None.                                              *)
RECURSIVE PriceLoop(_, _, _)
PriceLoop(cs, i, vals) ==
  IF i > Len(cs) THEN [NoResult EXCEPT !.values = vals]
  ELSE IF ~cs[i].price THEN Failure("AttributeError", 74, i, vals)
  ELSE LET v == Float(StripPrice(cs[i].priceText)) IN
         IF ~v.ok THEN Failure("ValueError", 75, i, vals)
         ELSE IF ~InRange(v)
              THEN Failure("AssertionError", 76, i, Append(vals, [mant |-> v.mant, scale |-> v.scale]))
         ELSE PriceLoop(cs, i + 1, Append(vals, [mant |-> v.mant, scale |-> v.scale]))

(* Lines 71-76. *)
PriceCheck(cs) ==
  LET filtered_villas == QuerySelectorAll(cs) IN
    IF ~(Len(filtered_villas) > 0) THEN Failure("AssertionError", 72, 0, <<>>)
    ELSE PriceLoop(filtered_villas, 1, <<>>)

Card(m, t, p, l, txt) ==
  [multimedia |-> m, title |-> t, price |-> p, location |-> l, priceText |-> txt]

Priced(txt) == Card(TRUE, TRUE, TRUE, TRUE, txt)

SeqsUpTo(S, lo, hi) == UNION {[1..n -> S] : n \in lo..hi}

PriceFixtures ==
  {<<"$", "8", "0">>, <<"$", "1", "5", "0">>, <<"$", "3", "0", "0">>,
   <<"$", "6", "0", "0">>}

TextAlphabet == {"$", ",", ".", "1", "0", "x"}

TextFixtures ==
  SeqsUpTo(TextAlphabet, 0, MaxTextLen)
    \cup {<<"$", "1", ",", "2", "3", "4", ".", "0", "0">>}

ListingFixtures ==
  SeqsUpTo({Card(m, t, p, l, <<"$", "1", "5", "0">>) :
              m \in BOOLEAN, t \in BOOLEAN, p \in BOOLEAN, l \in BOOLEAN},
           0, MaxListingCards)

PricedFixtures ==
  SeqsUpTo({Priced(txt) : txt \in PriceFixtures}, 1, MaxPricedCards)

ParseFixtures == {<<Priced(txt)>> : txt \in TextFixtures}

(* A listing page, not yet checked; no run is in progress. *)
InitAssert ==
  /\ cards \in ListingFixtures \cup PricedFixtures \cup ParseFixtures
  /\ checked = "none" /\ presented = <<>> /\ result = NoResult
  /\ scenario = "TC004"
  /\ ctl = "NotStarted" /\ pc = 0 /\ tdpc = 0 /\ state = "NotStarted"
  /\ exc = NoExc /\ bodyExc = NoExc
  /\ pw = "unbound" /\ browser = "unbound" /\ context = "unbound"
  /\ page = "unbound"
  /\ defaultTimeout = 0 /\ open = {} /\ acqLog = <<>> /\ closeLog = <<>>
  /\ stepLog = <<>> /\ frames = 0 /\ frameIdx = 0 /\ frameWaits = <<>>
  /\ pageWait = "none" /\ finallyCount = 0 /\ verdictCount = 0
  /\ pageFrames = 0
  /\ runs = <<>> /\ cell = <<>> /\ pagesOf = <<>> /\ lastUse = <<0, NoHandle>>

run == <<scenario, ctl, pc, tdpc, state, exc, bodyExc, session, closeLog,
         stepLog, loopVars, finallyCount, verdictCount, pageFrames>>

(* Lines 53-63 applied to the page. *)
CheckListing ==
  /\ checked = "none"
  /\ checked' = "listing"
  /\ presented' = QuerySelectorAll(cards)
  /\ result' = ListingCheck(cards)
  /\ UNCHANGED <<cards, run, multi>>

(* Lines 71-76 applied to the page. *)
CheckPrices ==
  /\ checked = "none"
  /\ checked' = "price"
  /\ presented' = QuerySelectorAll(cards)
  /\ result' = PriceCheck(cards)
  /\ UNCHANGED <<cards, run, multi>>

NextAssert == CheckListing \/ CheckPrices

SpecAssert == InitAssert /\ [][NextAssert]_vars

(***************************************************************************)
(* Several runs of run_test side by side.  Each run executes the same      *)
(* acquisition (lines 5-29), a navigation and an interaction through       *)
(* context.pages[-1], and the finally block.  A handle is the pair of the  *)
(* run whose call created it and its kind; a variable of a run is a cell.  *)
(***************************************************************************)
MaxRuns == 2

Runs == 1..MaxRuns

HandleVars == {"pw", "browser", "context", "page"}

(* Variables kept at module level: one cell per name for all runs. *)
ModuleScope(r, name) == <<0, name>>

(* pw, browser, context and page are assigned inside run_test: they are    *)
(* locals, one cell per run and name.                                      *)
Scope(r, name) == <<r, name>>

Get(r, name) == cell[Scope(r, name)]

Set(r, name, h) == [cell EXCEPT ![Scope(r, name)] = h]

(* context.pages[-1] *)
LastPage(c) == pagesOf[c][Len(pagesOf[c])]

InitRuns ==
  /\ runs = [r \in Runs |-> [pc |-> "start", exc |-> "None"]]
  /\ cell = [k \in (0..MaxRuns) \X HandleVars |-> NoHandle]
  /\ pagesOf = [c \in Runs \X {"context"} |-> <<>>]
  /\ lastUse = <<0, NoHandle>>
  /\ cards = <<>> /\ checked = "none" /\ presented = <<>> /\ result = NoResult
  /\ scenario = "TC007"
  /\ ctl = "NotStarted" /\ pc = 0 /\ tdpc = 0 /\ state = "NotStarted"
  /\ exc = NoExc /\ bodyExc = NoExc
  /\ pw = "unbound" /\ browser = "unbound" /\ context = "unbound"
  /\ page = "unbound"
  /\ defaultTimeout = 0 /\ open = {} /\ acqLog = <<>> /\ closeLog = <<>>
  /\ stepLog = <<>> /\ frames = 0 /\ frameIdx = 0 /\ frameWaits = <<>>
  /\ pageWait = "none" /\ finallyCount = 0 /\ verdictCount = 0
  /\ pageFrames = 0

At(r, p, q) == runs[r].pc = p /\ runs' = [runs EXCEPT ![r].pc = q]

(* A statement that raises takes the run to its finally block. *)
Raised(r, p, e) ==
  /\ runs[r].pc = p
  /\ runs' = [runs EXCEPT ![r] = [pc |-> "close_context", exc |-> e]]

(* A close call that raises leaves the finally block and the run. *)
CloseRaised(r, p) ==
  /\ runs[r].pc = p
  /\ runs' = [runs EXCEPT ![r] = [pc |-> "done", exc |-> "Error"]]

Fails(r, p) ==
  /\ Raised(r, p, "Error")
  /\ UNCHANGED <<cell, pagesOf, lastUse>>

(* pw = await async_api.async_playwright().start() *)
RunStart ==
  /\ \E r \in Runs :
       \/ /\ At(r, "start", "launch")
          /\ cell' = Set(r, "pw", <<r, "pw">>)
          /\ UNCHANGED <<pagesOf, lastUse>>
       \/ Fails(r, "start")
  /\ UNCHANGED <<run, fixture>>

(* browser = await pw.chromium.launch(...) *)
RunLaunch ==
  /\ \E r \in Runs :
       \/ /\ At(r, "launch", "new_context")
          /\ lastUse' = <<r, Get(r, "pw")>>
          /\ cell' = Set(r, "browser", <<r, "browser">>)
          /\ UNCHANGED pagesOf
       \/ Fails(r, "launch")
  /\ UNCHANGED <<run, fixture>>

(* context = await browser.new_context() *)
RunNewContext ==
  /\ \E r \in Runs :
       \/ /\ At(r, "new_context", "new_page")
          /\ lastUse' = <<r, Get(r, "browser")>>
          /\ cell' = Set(r, "context", <<r, "context">>)
          /\ UNCHANGED pagesOf
       \/ Fails(r, "new_context")
  /\ UNCHANGED <<run, fixture>>

(* page = await context.new_page(): the page is opened in the context the  *)
(* variable holds.                                                         *)
RunNewPage ==
  /\ \E r \in Runs :
       \/ /\ At(r, "new_page", "goto")
          /\ lastUse' = <<r, Get(r, "context")>>
          /\ cell' = Set(r, "page", <<r, "page">>)
          /\ pagesOf' = [pagesOf EXCEPT ![Get(r, "context")] = Append(@, <<r, "page">>)]
       \/ Fails(r, "new_page")
  /\ UNCHANGED <<run, fixture>>

(* await page.goto(...) *)
RunGoto ==
  /\ \E r \in Runs :
       \/ /\ At(r, "goto", "interact")
          /\ lastUse' = <<r, Get(r, "page")>>
          /\ UNCHANGED <<cell, pagesOf>>
       \/ /\ Raised(r, "goto", "Error")
          /\ lastUse' = <<r, Get(r, "page")>>
          /\ UNCHANGED <<cell, pagesOf>>
  /\ UNCHANGED <<run, fixture>>

(* frame = context.pages[-1]; elem = frame.locator(...).nth(0);            *)
(* await elem.click(timeout=5000)                                          *)
RunInteract ==
  /\ \E r \in Runs :
       /\ \/ At(r, "interact", "assert")
          \/ Raised(r, "interact", "Error")
       /\ lastUse' = <<r, LastPage(Get(r, "context"))>>
       /\ UNCHANGED <<cell, pagesOf>>
  /\ UNCHANGED <<run, fixture>>

(* assert False, '...' *)
RunAssert ==
  /\ \E r \in Runs :
       /\ Raised(r, "assert", "AssertionError")
       /\ UNCHANGED <<cell, pagesOf, lastUse>>
  /\ UNCHANGED <<run, fixture>>

(* finally: if context: await context.close() *)
RunCloseContext ==
  /\ \E r \in Runs :
       /\ \/ At(r, "close_context", "close_browser")
          \/ Get(r, "context") # NoHandle /\ CloseRaised(r, "close_context")
       /\ lastUse' = IF Get(r, "context") # NoHandle
                     THEN <<r, Get(r, "context")>> ELSE lastUse
       /\ UNCHANGED <<cell, pagesOf>>
  /\ UNCHANGED <<run, fixture>>

(* if browser: await browser.close() *)
RunCloseBrowser ==
  /\ \E r \in Runs :
       /\ \/ At(r, "close_browser", "stop")
          \/ Get(r, "browser") # NoHandle /\ CloseRaised(r, "close_browser")
       /\ lastUse' = IF Get(r, "browser") # NoHandle
                     THEN <<r, Get(r, "browser")>> ELSE lastUse
       /\ UNCHANGED <<cell, pagesOf>>
  /\ UNCHANGED <<run, fixture>>

(* if pw: await pw.stop() *)
RunStop ==
  /\ \E r \in Runs :
       /\ \/ At(r, "stop", "done")
          \/ Get(r, "pw") # NoHandle /\ CloseRaised(r, "stop")
       /\ lastUse' = IF Get(r, "pw") # NoHandle
                     THEN <<r, Get(r, "pw")>> ELSE lastUse
       /\ UNCHANGED <<cell, pagesOf>>
  /\ UNCHANGED <<run, fixture>>

NextRuns ==
  \/ RunStart
  \/ RunLaunch
  \/ RunNewContext
  \/ RunNewPage
  \/ RunGoto
  \/ RunInteract
  \/ RunAssert
  \/ RunCloseContext
  \/ RunCloseBrowser
  \/ RunStop

SpecRuns == InitRuns /\ [][NextRuns]_vars

TypeOK ==
  /\ scenario \in Scenarios
  /\ ctl \in {"NotStarted", "Body", "Finally", "Blocked", "Exited"}
  /\ state \in {"NotStarted", "Running", "Passed", "Failed"}
  /\ open \subseteq {"pw", "browser", "context", "page"}
  /\ frames \in 0..MaxFrames
  /\ pageFrames \in 0..MaxFrames
  /\ Len(frameWaits) <= frames

(***************************************************************************)
(* Properties                                                              *)
(***************************************************************************)
Range(f) == {f[i] : i \in DOMAIN f}

Pos(f, x) == CHOOSE i \in DOMAIN f : f[i] = x

GotoKinds == {"goto_commit", "goto_load"}

SoftKinds == {"wait_for_load_state", "frames"}

(* C1: on every exit path of run_test the finally block is entered exactly *)
(* once: never twice, once by the time the run has exited, and from the    *)
(* moment it is entered control is never back in the try body.             *)
C1_ReleaseExactlyOnce ==
  /\ finallyCount <= 1
  /\ (ctl = "Exited" => finallyCount = 1)
  /\ (finallyCount = 1 => ctl \in {"Finally", "Exited"})

(* A run that ended on the unexpected fault (NameError of the scroll). *)
C1_Witness ==
  /\ ctl = "Exited"
  /\ bodyExc.type = "NameError"
  /\ finallyCount = 1

(* C2 as claimed: when a close call of the teardown fails, that failure is *)
(* not what the run raises, and every acquired handle still got its close  *)
(* call.                                                                   *)
C2_TeardownFailureTolerated ==
  (ctl = "Exited" /\ \E i \in DOMAIN closeLog : closeLog[i].outcome = "Error")
    => /\ exc = bodyExc
       /\ \A r \in Range(FinallyOrder) :
            Handle(r) = "handle" => \E i \in DOMAIN closeLog : closeLog[i].res = r

(* C3 as claimed: when a hard step failed, the failure the run reports at  *)
(* its exit is that step's failure, whatever the teardown did.             *)
C3_FirstFailureWins ==
  (ctl = "Exited" /\ bodyExc # NoExc) => exc.at = bodyExc.at /\ exc.line = bodyExc.line

(* C4: once the statement at position N of the try body has raised, N is   *)
(* the last statement executed, no statement at a later position has been  *)
(* executed, control has left the body and the run is Failed.              *)
C4_HardStepStops ==
  bodyExc # NoExc =>
    /\ \A i \in DOMAIN stepLog : stepLog[i] <= bodyExc.at
    /\ stepLog[Len(stepLog)] = bodyExc.at
    /\ ctl \in {"Finally", "Exited"}
    /\ state = "Failed"

(* A click in the middle of TC007 timed out and the run has exited. *)
C4_Witness ==
  /\ ctl = "Exited"
  /\ bodyExc.type = "TimeoutError"
  /\ Script(scenario)[bodyExc.at].kind = "click"
  /\ bodyExc.at < Len(Script(scenario))
  /\ state = "Failed"

(* C5: whatever the outcome of a best-effort load-state wait (page or      *)
(* frame), no exception is in flight afterwards, the run state is          *)
(* unchanged and control is at the same place as after a successful wait.  *)
C5_SoftStepSwallowed ==
  [][ /\ (ctl = "Body" /\ Cur.kind = "wait_for_load_state")
         => /\ ctl' = "Body" /\ pc' = pc + 1
            /\ exc' = NoExc /\ bodyExc' = NoExc /\ state' = state
      /\ (ctl = "Body" /\ Cur.kind = "frames" /\ frames > 0)
         => /\ ctl' = "Body" /\ frameIdx' = frameIdx + 1
            /\ pc' = (IF frameIdx = frames THEN pc + 1 ELSE pc)
            /\ exc' = NoExc /\ bodyExc' = NoExc /\ state' = state ]_vars

(* The page wait timed out, a frame wait failed, and the run is past the   *)
(* frame loop with nothing in flight.                                      *)
C5_Witness ==
  /\ ctl = "Body"
  /\ pageWait = "TimeoutError"
  /\ frames > 0 /\ Len(frameWaits) = frames
  /\ "Error" \in Range(frameWaits)
  /\ Cur.kind \notin SoftKinds
  /\ exc = NoExc

(* C6: close calls are issued in reverse acquisition order, and a handle   *)
(* gets its close call only after every handle acquired after it got its   *)
(* own (the page has no call of its own: it goes down with its context).   *)
C6_ReverseOrder ==
  /\ \A i, j \in DOMAIN closeLog :
       i < j => Pos(acqLog, closeLog[i].res) > Pos(acqLog, closeLog[j].res)
  /\ \A j \in DOMAIN closeLog : \A k \in DOMAIN acqLog :
       (k > Pos(acqLog, closeLog[j].res) /\ acqLog[k] # "page")
         => \E i \in 1..(j - 1) : closeLog[i].res = acqLog[k]
  /\ \A j \in DOMAIN closeLog :
       (closeLog[j].res # "context" /\ "page" \in Range(acqLog))
         => "page" \notin open

(* A full session was acquired and all three close calls were issued. *)
C6_Witness ==
  /\ Len(acqLog) = 4
  /\ Len(closeLog) = 3
  /\ closeLog[1].res = "context" /\ closeLog[3].res = "pw"

(* C7: once the first close call has been issued, no statement of the try  *)
(* body is executed any more and control never returns to the body.        *)
C7_NoStepAfterTeardown ==
  [][ closeLog # <<>>
        => /\ stepLog' = stepLog
           /\ frameWaits' = frameWaits /\ pageWait' = pageWait
           /\ ctl' # "Body" ]_vars

(* The teardown issued a close call and the run has exited. *)
C7_Witness ==
  /\ ctl = "Exited"
  /\ closeLog # <<>>
  /\ Len(stepLog) > Len(Preamble)

(* C8: the run state moves only NotStarted -> Running -> Passed or Failed, *)
(* a terminal state never changes, the run hands over at most one verdict, *)
(* and when it has exited the state is terminal, the verdict is the one    *)
(* and only, and the teardown has run.                                     *)
C8_RunStateMachine ==
  [][ /\ (state = "NotStarted" => state' \in {"NotStarted", "Running"})
      /\ (state = "Running" => state' \in {"Running", "Passed", "Failed"})
      /\ (state \in {"Passed", "Failed"} => state' = state)
      /\ verdictCount' <= 1
      /\ (ctl' = "Exited"
            => /\ state' \in {"Passed", "Failed"}
               /\ verdictCount' = 1
               /\ finallyCount' = 1) ]_vars

(* TC007 reached its last assertion, failed there, tore down and exited. *)
C8_Witness ==
  /\ ctl = "Exited"
  /\ state = "Failed"
  /\ bodyExc.type = "AssertionError"
  /\ verdictCount = 1
  /\ Len(closeLog) = 3

(* C9 as claimed: every page.goto of the script is followed by the frame   *)
(* loop, with nothing but the page's load-state wait in between.           *)
C9_FramesAfterEveryGoto ==
  LET sc == Script(scenario) IN
    \A i \in DOMAIN sc :
      sc[i].kind \in GotoKinds
        => \E j \in (i + 1)..Len(sc) :
             /\ sc[j].kind = "frames"
             /\ \A k \in (i + 1)..(j - 1) : sc[k].kind = "wait_for_load_state"

(* C10 as claimed: every page.goto of the script waits for no more than    *)
(* the commit and is directly followed by the swallowed wait for           *)
(* domcontentloaded.                                                       *)
C10_LoadWaitAfterEveryGoto ==
  LET sc == Script(scenario) IN
    \A i \in DOMAIN sc :
      sc[i].kind \in GotoKinds
        => /\ sc[i].kind = "goto_commit"
           /\ i < Len(sc)
           /\ sc[i + 1].kind = "wait_for_load_state"
           /\ \A o \in {"TimeoutError", "Error"} : Catches(sc[i + 1], o)

C12_NoUnboundedWait == ctl # "Blocked"

Complete(c) == c.multimedia /\ c.title /\ c.price /\ c.location

(* C13 as claimed: the listing check passes exactly when there is at least *)
(* one card and every card has its multimedia, title, price and location   *)
(* element; and for three cards of which only card 2 lacks its price the   *)
(* check fails with a message that names card 2 and the price.             *)
C13_ListingCheck ==
  checked = "listing" =>
    /\ result.passed <=> (Len(cards) >= 1 /\ \A i \in DOMAIN cards : Complete(cards[i]))
    /\ ( /\ Len(cards) = 3
         /\ Complete(cards[1]) /\ Complete(cards[3])
         /\ cards[2].multimedia /\ cards[2].title /\ cards[2].location
         /\ ~cards[2].price )
       => /\ ~result.passed
          /\ "2" \in Range(result.msg)
          /\ "price" \in Range(result.msg)

PriceTexts(cs) == [i \in DOMAIN cs |-> cs[i].priceText]

(* C14 as claimed: for cards priced 80, 150, 300 and 600 the cards given   *)
(* to the price assertion are exactly those priced 150 and 300, and the    *)
(* assertion fails on a card priced 80 or 600 whenever it is given one.    *)
C14_PriceFilter ==
  ( /\ checked = "price"
    /\ PriceTexts(cards) = << <<"$", "8", "0">>, <<"$", "1", "5", "0">>,
                              <<"$", "3", "0", "0">>, <<"$", "6", "0", "0">> >> )
    => /\ Range(PriceTexts(presented)) = {<<"$", "1", "5", "0">>, <<"$", "3", "0", "0">>}
       /\ (Range(PriceTexts(presented))
             \cap {<<"$", "8", "0">>, <<"$", "6", "0", "0">>} # {}
           => ~result.passed)

(* A text that reads as a number: digits, at most one point, a digit at    *)
(* least.                                                                  *)
Numeral(t) ==
  /\ \E i \in DOMAIN t : t[i] \in Digits
  /\ \A i \in DOMAIN t : t[i] \in Digits \cup {"."}
  /\ \A i, j \in DOMAIN t : (t[i] = "." /\ t[j] = ".") => i = j

(* C15: the price text is compared after "$" and "," are taken out of it:  *)
(* "$1,234.00" gives exactly 1234.00; the check of a card stops with a     *)
(* ValueError at the conversion exactly when what remains is not a number, *)
(* and that error fails the check before any later statement runs.         *)
C15_PriceParse ==
  (checked = "price" /\ Len(cards) = 1 /\ cards[1].price) =>
    LET t == cards[1].priceText
        rest == SelectSeq(t, LAMBDA c : c \notin {"$", ","})
    IN /\ (t = <<"$", "1", ",", "2", "3", "4", ".", "0", "0">>)
            => /\ Len(result.values) = 1
               /\ result.values[1].mant = 1234 * Pow10(result.values[1].scale)
       /\ (result.type = "ValueError") <=> ~Numeral(rest)
       /\ (result.type = "ValueError")
            => /\ ~result.passed
               /\ result.line = 75
               /\ result.values = <<>>
       /\ (result.type # "ValueError") => Len(result.values) = 1

(* "$1,234.00" was converted: the value is 1234.00, and being above 500    *)
(* the range assertion then failed on it.                                  *)
C15_Witness ==
  /\ checked = "price"
  /\ Len(cards) = 1
  /\ cards[1].priceText = <<"$", "1", ",", "2", "3", "4", ".", "0", "0">>
  /\ result.values = <<[mant |-> 123400, scale |-> 2]>>
  /\ result.type = "AssertionError" /\ result.line = 76

(* Names bound to element handles: results of query_selector and           *)
(* query_selector_all, kept in a variable across later awaits.             *)
ElementHandleNames ==
  {"villas", "villa", "filtered_villas", "multimedia", "title", "price",
   "location", "amenities", "amenity"}

OperatesOnHandle(st) ==
  /\ Bound(st) # "sync"
  /\ st.names \cap ElementHandleNames # {}

(* C16 as claimed: no statement of the script makes an engine call on an   *)
(* element handle obtained by an earlier statement; every interaction and  *)
(* extraction goes through the page or a locator resolved at the call.     *)
C16_NoCachedHandle ==
  \A i \in DOMAIN Script(scenario) : ~OperatesOnHandle(Script(scenario)[i])

(* C17: whenever a run makes a call on a context or a page (a use or a    *)
(* close), that handle was created by the same run, and every page of a    *)
(* context was opened by the run that created the context.                 *)
C17_OwnSessionOnly ==
  /\ lastUse[2][2] \in {"context", "page"} => lastUse[2][1] = lastUse[1]
  /\ \A c \in DOMAIN pagesOf : \A i \in DOMAIN pagesOf[c] : pagesOf[c][i][1] = c[1]

(* Run 1 has closed its session while run 2, started meanwhile, has just   *)
(* interacted with the last page of its own context.                       *)
C17_Witness ==
  /\ runs[1].pc = "done"
  /\ runs[2].pc = "assert"
  /\ lastUse = <<2, <<2, "page">>>>
  /\ Get(1, "context") = <<1, "context">>

(* C18: the statements of a run are executed in their order in the script, *)
(* one after the other, each at most once: the k-th statement executed is  *)
(* statement k, so no statement is skipped, repeated or retried, and no    *)
(* frame is waited on twice.                                               *)
C18_InOrderOnce ==
  /\ \A i \in DOMAIN stepLog : stepLog[i] = i
  /\ Len(frameWaits) <= frames
  /\ (ctl = "Body" => pc \in {Len(stepLog), Len(stepLog) + 1})

(* TC007 has executed every statement up to its final assert, which failed. *)
C18_Witness ==
  /\ scenario = "TC007"
  /\ bodyExc.type = "AssertionError"
  /\ Len(stepLog) = Len(Script(scenario)) - 1
  /\ ctl = "Exited"

(* C19 as claimed: whenever a hard step fails, the reason of that failure  *)
(* is not empty and names the target of the step or a name its target is   *)
(* written with.                                                           *)
C19_ReasonNamesTarget ==
  bodyExc # NoExc =>
    LET st == Script(scenario)[bodyExc.at]
        words == Range(Reason(scenario, bodyExc))
    IN /\ words # {}
       /\ (st.target \in words \/ st.names \cap words # {})

(* C20 as claimed: in TC005, TC007 and TC012 nothing but a failure of the  *)
(* engine keeps a run from reaching the final assert False, and a run that *)
(* fails there ends Failed with that assertion's message as its reason.    *)
C20_FinalAssertion ==
  scenario \in {"TC005", "TC007", "TC012"} =>
    /\ (bodyExc # NoExc /\ bodyExc.type \notin {"TimeoutError", "Error"})
         => /\ Script(scenario)[bodyExc.at].kind = "assert"
            /\ Script(scenario)[bodyExc.at].target = "False"
    /\ (ctl = "Exited" /\ bodyExc.type = "AssertionError")
         => /\ state = "Failed"
            /\ Reason(scenario, exc) = AssertMessage(bodyExc.line)

(* C21: in TC004, TC005 and TC012 the scroll of line 49 reads a name that  *)
(* nothing binds: a run that executes it fails there with NameError, no    *)
(* statement after it is ever executed, and the run ends Failed.           *)
C21_ScrollStopsRun ==
  scenario \in {"TC004", "TC005", "TC012"} =>
    LET scroll == Len(Preamble) + 1 IN
      /\ Script(scenario)[scroll].line = 49
      /\ Script(scenario)[scroll].kind = "scroll"
      /\ \A i \in DOMAIN stepLog : stepLog[i] <= scroll
      /\ (\E i \in DOMAIN stepLog : stepLog[i] = scroll)
           => /\ bodyExc.type = "NameError"
              /\ bodyExc.at = scroll
              /\ state = "Failed"
              /\ ctl \in {"Finally", "Exited"}

(* A run of TC012 got through acquisition, navigation and the waits, hit   *)
(* the scroll and has exited Failed.                                       *)
C21_Witness ==
  /\ scenario = "TC012"
  /\ ctl = "Exited"
  /\ Len(stepLog) = Len(Preamble) + 1
  /\ bodyExc.type = "NameError" /\ bodyExc.line = 49
  /\ state = "Failed"

(* C22: a close call is made only on a resource the run acquired, and at   *)
(* most once on each; and when the run has exited with no close call       *)
(* having failed, each of engine, browser and context that was acquired    *)
(* got its close call and nothing acquired is still open.                  *)
C22_ClosesWhatWasAcquired ==
  /\ \A i \in DOMAIN closeLog : closeLog[i].res \in Range(acqLog)
  /\ \A i, j \in DOMAIN closeLog : closeLog[i].res = closeLog[j].res => i = j
  /\ (ctl = "Exited" /\ \A i \in DOMAIN closeLog : closeLog[i].outcome = "ok")
       => /\ {closeLog[i].res : i \in DOMAIN closeLog} = Range(acqLog) \ {"page"}
          /\ open = {}

(* Acquisition stopped at the context: engine and browser were acquired,   *)
(* both were closed, the context never got a close call.                   *)
C22_Witness ==
  /\ ctl = "Exited"
  /\ acqLog = <<"pw", "browser">>
  /\ bodyExc.line = 25
  /\ closeLog = <<[res |-> "browser", outcome |-> "ok"],
                  [res |-> "pw", outcome |-> "ok"]>>
  /\ open = {}

====
